---------------------------- MODULE Spec2Model ----------------------------
(***************************************************************************)
(* Reference normalizer and reference resolver of gswagger                 *)
(* (operation.go, route.go).                                               *)
(*                                                                         *)
(* A Go string is modelled as a sequence of tokens.  A token is either one *)
(* of the separators "#" and "/", one of the words the code searches for   *)
(* ("$defs", "definitions", "components", "schemas", ...), or a piece of   *)
(* a name ("A", "B", ...) that contains none of these words.  A path       *)
(* segment is a token sequence without "/"; a segment that holds a word    *)
(* stands for a name that contains it.  strings.HasPrefix, TrimPrefix,     *)
(* TrimSuffix, Contains and Split are computed on the token sequence as Go *)
(* computes them on the bytes.                                             *)
(***************************************************************************)
EXTENDS Integers, Sequences, FiniteSets, TLC

NIL == "nil"

(* ---------------------------------------------------------------------- *)
(* strings                                                                 *)
(* ---------------------------------------------------------------------- *)
HasPrefix(s, p) == Len(s) >= Len(p) /\ SubSeq(s, 1, Len(p)) = p

HasSuffix(s, p) == Len(s) >= Len(p) /\ SubSeq(s, Len(s) - Len(p) + 1, Len(s)) = p

TrimPrefix(s, p) == IF HasPrefix(s, p) THEN SubSeq(s, Len(p) + 1, Len(s)) ELSE s

TrimSuffix(s, p) == IF HasSuffix(s, p) THEN SubSeq(s, 1, Len(s) - Len(p)) ELSE s

Contains(s, sub) ==
    \E i \in 1..(Len(s) - Len(sub) + 1) : SubSeq(s, i, i + Len(sub) - 1) = sub

\* strings.Split(s, "/"): the segments between the separators
Split(s) ==
    LET sl == {i \in 1..Len(s) : s[i] = "/"}
        cut(k) == IF k = 0 THEN 0
                  ELSE IF k > Cardinality(sl) THEN Len(s) + 1
                  ELSE CHOOSE i \in sl : Cardinality({j \in sl : j <= i}) = k
    IN  [k \in 1..(Cardinality(sl) + 1) |-> SubSeq(s, cut(k - 1) + 1, cut(k) - 1)]

Root == <<"#", "/">>
DefsPrefix == <<"#", "/", "$defs", "/">>
DefinitionsPrefix == <<"#", "/", "definitions", "/">>
SchemasPrefix == <<"#", "/", "components", "/", "schemas", "/">>

(* ---------------------------------------------------------------------- *)
(* reference normalizer                                                    *)
(* ---------------------------------------------------------------------- *)
determineComponentName(ref, name) ==
    IF ref = <<>> THEN name
    ELSE IF Len(TrimPrefix(ref, Root)) = 0 THEN <<>>
    ELSE LET r == TrimSuffix(ref, <<"/">>)
         IN  IF Contains(r, <<"$defs">>) THEN TrimPrefix(r, DefsPrefix)
             ELSE IF Contains(r, <<"definitions">>) THEN TrimPrefix(r, DefinitionsPrefix)
             ELSE IF Contains(r, <<"components", "/", "schemas">>)
                  THEN TrimPrefix(r, SchemasPrefix)
             ELSE IF HasPrefix(r, Root) THEN TrimPrefix(r, Root)
             ELSE name

makeComponentRef(componentName) == SchemasPrefix \o componentName

\* the new Ref, or the error "could not determine component name"
convertSchemaRefToStandardFormat(ref) ==
    LET componentName == determineComponentName(ref, <<>>)
    IN  IF componentName = <<>>
        THEN [ok |-> FALSE, ref |-> ref]
        ELSE [ok |-> TRUE, ref |-> makeComponentRef(componentName)]


(* ---------------------------------------------------------------------- *)
(* the document: objects and their fixed layout                            *)
(* ---------------------------------------------------------------------- *)
\* *openapi3.Schema objects: the values of components A and B, and a schema
\* that is only ever used inline
SchemaObjs == {"sA", "sB", "sN"}

\* Schema.Properties: property name -> *SchemaRef
Properties(s) ==
    CASE s = "sA" -> ("b" :> "A.b") @@ ("c" :> "A.c")
      [] s = "sB" -> ("a" :> "B.a")
      [] s = "sN" -> ("x" :> "N.x")

\* Schema.Items, Schema.AdditionalProperties.Schema: *SchemaRef or nil
Items(s) == CASE s = "sA" -> "A.items" [] s = "sB" -> "B.items" [] OTHER -> NIL

AdditionalProperties(s) == CASE s = "sA" -> "A.additionalProperties" [] OTHER -> NIL

\* Schema.AllOf, AnyOf, OneOf: []*SchemaRef
AllOf(s) == CASE s = "sA" -> <<"A.allOf">> [] OTHER -> <<>>

AnyOf(s) == CASE s = "sA" -> <<"A.anyOf">> [] OTHER -> <<>>

OneOf(s) == CASE s = "sA" -> <<"A.oneOf">> [] OTHER -> <<>>

\* RequestBody.Content, Response.Content, Parameter.Content: media type -> *SchemaRef
Content(o) ==
    CASE o = "rbI" -> ("application/json" :> "rbI.json") @@ ("application/xml" :> "rbI.xml")
      [] o = "rbC" -> ("application/json" :> "rbC.json")
      [] o = "r200I" -> ("application/json" :> "r200I.json")
      [] o = "rC" -> ("application/json" :> "rC.json")
      [] o = "pC" -> ("application/json" :> "pC.json")
      [] OTHER -> << >>

\* Parameter.Schema: *SchemaRef
ParamSchema(o) == CASE o = "pI" -> "pI.schema" [] o = "pC" -> "pC.schema" [] OTHER -> NIL

MemberCells(s) ==
    {Properties(s)[p] : p \in DOMAIN Properties(s)}
        \cup ({Items(s), AdditionalProperties(s)} \ {NIL})
        \cup {AllOf(s)[i] : i \in DOMAIN AllOf(s)}
        \cup {AnyOf(s)[i] : i \in DOMAIN AnyOf(s)}
        \cup {OneOf(s)[i] : i \in DOMAIN OneOf(s)}

BodyObjs == {"rbI", "rbC", "r200I", "r404I", "rC", "pI", "pC"}

ContentCells(o) == {Content(o)[m] : m \in DOMAIN Content(o)} \cup ({ParamSchema(o)} \ {NIL})

Cells == UNION {MemberCells(s) : s \in SchemaObjs} \cup UNION {ContentCells(o) : o \in BodyObjs}

Kinds == {"schemas", "responses", "parameters", "requestBodies"}

\* rootSchema.Components.<kind>: component name -> Value of the entry
Entries(kind) ==
    CASE kind = "schemas" -> (<<"A">> :> "sA") @@ (<<"B">> :> "sB") @@ (<<"E">> :> NIL)
      [] kind = "responses" -> (<<"R">> :> "rC")
      [] kind = "parameters" -> (<<"P">> :> "pC")
      [] kind = "requestBodies" -> (<<"RB">> :> "rbC")

\* the word the error messages use for a kind
Singular(kind) ==
    CASE kind = "schemas" -> "schema"
      [] kind = "responses" -> "response"
      [] kind = "parameters" -> "parameter"
      [] kind = "requestBodies" -> "requestBody"

VARIABLES
    rootSchema,  \* [Components: is it non-nil, Regs: the kinds whose map is non-nil]
    op,          \* the Operation: RequestBody, Responses, Parameters
    cell,        \* every *SchemaRef of the document: [Ref, Value]
    visited,     \* visitedRefs of the running call
    stack,       \* the call stack of the running call
    result,      \* what ResolveReferences returned
    last,        \* the reference the resolver handled last
    op0, cell0,  \* op and cell when ResolveReferences was called
    nin, nout,   \* input and output of a direct call of the normalizer
    first,       \* the outcome of the first of two calls of ResolveReferences
    heap,        \* the Go values a route definition can hold: structs, slices, maps
    cyc,         \* the last call of checkForCycles: its argument and what it returned
    schemas,     \* Router.swaggerSchema.Components.Schemas: component name -> definition
    ret,         \* what the last call of getSchemaFromInterface returned
    opts,        \* the Options NewRouter was given
    routers,     \* every *Router, the root first: router, swaggerSchema, pathPrefix, host, isSubrouter
    hostRouters, \* the root's hostRouters map: host -> *Router
    docs,        \* every *openapi3.T: Paths, Components.Schemas
    fw,          \* every framework router (gorillaRouter): its mux router's template, pathPrefix
    mux,         \* what the mux routers hold, in order of registration: routes and subrouters
    given,       \* the Definitions the next AddRoute is given
    called       \* the last call on a Router and what it returned

\* the Router and what it serves
routing == <<opts, routers, hostRouters, docs, fw, mux, given, called>>

\* the variables the resolver and the normalizer leave alone
others == <<first, heap, cyc, schemas, ret, routing>>

vars == <<rootSchema, op, cell, visited, stack, result, last, op0, cell0, nin, nout, others>>

EmptyRef == [Ref |-> <<>>, Value |-> NIL]

(* ---------------------------------------------------------------------- *)
(* resolveComponentRef, up to the recursion into the schema it found       *)
(* ---------------------------------------------------------------------- *)
\* an error: the format of its innermost message, the arguments of the format,
\* and the place the resolver was at (its wrapping)
NoErr == [st |-> "running", msg |-> "", kind |-> "", arg |-> <<>>, site |-> <<>>]

Ok == [st |-> "ok", msg |-> "", kind |-> "", arg |-> <<>>, site |-> <<>>]

Err(msg, kind, arg) == [st |-> "err", msg |-> msg, kind |-> kind, arg |-> arg, site |-> <<>>]

Found(kind, name, val) == [err |-> NoErr, kind |-> kind, name |-> name, val |-> val]

NotFound(e) == [err |-> e, kind |-> NIL, name |-> <<>>, val |-> NIL]

\* a lookup that does not tell an absent registry from an absent entry
LookupInAnyRegistry(rs, componentType, componentName) ==
    IF componentType \notin {<<k>> : k \in Kinds}
    THEN NotFound(Err("unsupported component type: %q", "", componentType))
    ELSE LET kind == componentType[1]
         IN  IF ~rs.Components \/ kind \notin rs.Regs \/ componentName \notin DOMAIN Entries(kind)
             THEN NotFound(Err("%s %q not found", Singular(kind), componentName))
             ELSE Found(kind, componentName, Entries(kind)[componentName])

\* the switch of resolveComponentRef over the component type
LookupIn(rs, componentType, componentName) ==
    IF componentType \notin {<<k>> : k \in Kinds}
    THEN NotFound(Err("unsupported component type: %q", "", componentType))
    ELSE LET kind == componentType[1]
         IN  IF ~rs.Components \/ kind \notin rs.Regs
             THEN NotFound(Err("no %s defined in components", kind, <<>>))
             ELSE IF componentName \notin DOMAIN Entries(kind)
             THEN NotFound(Err("%s %q not found", Singular(kind), componentName))
             ELSE Found(kind, componentName, Entries(kind)[componentName])

resolveComponentRef(rs, ref) ==
    IF ~HasPrefix(ref, Root)
    THEN NotFound(Err("reference %q must point to a component", "", ref))
    ELSE LET parts == Split(ref)
         IN  IF Len(parts) < 3
             THEN NotFound(Err("invalid reference format: %q", "", ref))
             ELSE IF parts[2] \notin {<<"components">>, <<"$defs">>, <<"definitions">>}
             THEN NotFound(Err("invalid reference format: %q", "", ref))
             ELSE IF parts[2] = <<"components">> /\ Len(parts) >= 4
             THEN LookupIn(rs, parts[3], parts[4])
             ELSE IF parts[2] \in {<<"$defs">>, <<"definitions">>}
             THEN LookupIn(rs, <<"schemas">>, parts[3])
             ELSE LookupIn(rs, parts[2], parts[3])

(* ---------------------------------------------------------------------- *)
(* call stack                                                              *)
(* ---------------------------------------------------------------------- *)
\* the number of references (of the operation and of the schemas it reaches)
\* a document holds
MaxSlots == 4

\* the deepest call stack the model follows: resolving a document nests at
\* most one call per reference it holds, under the frames of the operation
MaxDepth == MaxSlots + 4

\* what the caller of resolveComponentRef does with the schema once
\* processSchemaRefs has returned: nothing, assign it to a SchemaRef (and, for
\* a member of a schema, process it again), or fail the type assertion
NoAfter == [k |-> "none", c |-> NIL, val |-> NIL, again |-> FALSE, site |-> <<>>]

AssignAfter(c, val, again) == [k |-> "assign", c |-> c, val |-> val, again |-> again, site |-> <<>>]

TypeErrAfter(kind, site) == [k |-> "typeErr", c |-> kind, val |-> NIL, again |-> FALSE, site |-> site]

Frame(fn, obj, phase, todo, idx, after) ==
    [fn |-> fn, obj |-> obj, phase |-> phase, todo |-> todo, idx |-> idx, after |-> after]

Top == stack[Len(stack)]

Below == SubSeq(stack, 1, Len(stack) - 1)

Running == result.st = "running" /\ stack # <<>> /\ Len(stack) < MaxDepth

PhaseNames ==
    <<"properties", "items", "additionalProperties", "allOf", "anyOf", "oneOf", "return">>

PropTodo(s) == {p \in DOMAIN Properties(s) : cell[Properties(s)[p]] # EmptyRef}

ListOf(s, k) == CASE k = 4 -> AllOf(s) [] k = 5 -> AnyOf(s) [] k = 6 -> OneOf(s)

\* the members of schema s that the loops of processSchemaRefs do something
\* with, as <<phase, element>>
Members(s) ==
    (IF PropTodo(s) # {} THEN {<<1, 1>>} ELSE {})
        \cup (IF Items(s) # NIL /\ cell[Items(s)] # EmptyRef THEN {<<2, 1>>} ELSE {})
        \cup (IF AdditionalProperties(s) # NIL /\ cell[AdditionalProperties(s)] # EmptyRef
              THEN {<<3, 1>>} ELSE {})
        \cup UNION {{<<k, i>> : i \in {j \in DOMAIN ListOf(s, k) : cell[ListOf(s, k)[j]] # EmptyRef}} :
                    k \in 4..6}

\* the first of them at or after element i of phase k
SchemaPos(s, k, i) ==
    LET later == {m \in Members(s) : m[1] > k \/ (m[1] = k /\ m[2] >= i)}
    IN  IF later = {} THEN <<7, 1>>
        ELSE CHOOSE m \in later :
                 \A n \in later : m[1] < n[1] \/ (m[1] = n[1] /\ m[2] <= n[2])

SchemaFrameAt(s, pos, todo, after) == Frame("schema", s, PhaseNames[pos[1]], todo, pos[2], after)

NewSchemaFrame(s, after) == SchemaFrameAt(s, SchemaPos(s, 1, 1), PropTodo(s), after)

ContentTodo(o) == {m \in DOMAIN Content(o) : cell[Content(o)[m]].Ref # <<>>}

\* the frames a call of resolveContentRefs(o.Content, site) pushes
ContentFrames(o, site) ==
    IF o = NIL \/ ContentTodo(o) = {} THEN <<>>
    ELSE <<Frame("content", o, site, ContentTodo(o), 1, NoAfter)>>

(* ---------------------------------------------------------------------- *)
(* one reference                                                           *)
(* ---------------------------------------------------------------------- *)
Handled(site, raw, ref, act) == [site |-> site, raw |-> raw, ref |-> ref, act |-> act]

Outcome(cl, vis, push, skip, err, lst) ==
    [cell |-> cl, visited |-> vis, push |-> push, skip |-> skip, err |-> err, last |-> lst]

At(e, site) == [e EXCEPT !.site = site]

\* a resolver without the cycle detector
VisitedNever(ref) == FALSE

\* the test visitedRefs[ref] that guards every resolution
Visited(ref) == ref \in visited

\* a SchemaRef c that is a member of a schema: the body of one iteration of a
\* loop of processSchemaRefs (the visited test comes before the conversion)
MemberOutcome(c, site, conv, found) ==
    LET r == cell[c]
        cell1 == [cell EXCEPT ![c].Ref = conv.ref]
        vis1 == visited \cup {r.Ref}
    IN  IF r.Ref = <<>>
        THEN Outcome(cell, visited,
                     IF r.Value # NIL THEN <<NewSchemaFrame(r.Value, NoAfter)>> ELSE <<>>,
                     FALSE, NoErr, last)
        ELSE IF Visited(r.Ref)
        THEN Outcome(cell, visited, <<>>, TRUE, NoErr, Handled(site, r.Ref, r.Ref, "skip"))
        ELSE IF ~conv.ok
        THEN Outcome(cell, vis1, <<>>, FALSE,
                     At(Err("could not determine component name from reference %q", "", r.Ref), site),
                     Handled(site, r.Ref, r.Ref, "convert"))
        ELSE IF found.err.st = "err"
        THEN Outcome(cell1, vis1, <<>>, FALSE, At(found.err, site),
                     Handled(site, r.Ref, conv.ref, "resolve"))
        ELSE IF found.val # NIL
        THEN Outcome(cell1, vis1, <<NewSchemaFrame(found.val, AssignAfter(c, found.val, TRUE))>>,
                     FALSE, NoErr, Handled(site, r.Ref, conv.ref, "resolve"))
        ELSE Outcome([cell1 EXCEPT ![c].Value = NIL], vis1, <<>>, FALSE, NoErr,
                     Handled(site, r.Ref, conv.ref, "resolve"))

\* a SchemaRef c that is the schema of a media type or of a parameter: the
\* conversion comes first, a Value without a Ref is left alone
ContentOutcome(c, site, conv, found) ==
    LET r == cell[c]
        cell1 == [cell EXCEPT ![c].Ref = conv.ref]
        vis1 == visited \cup {conv.ref}
    IN  IF r.Ref = <<>>
        THEN Outcome(cell, visited, <<>>, FALSE, NoErr, last)
        ELSE IF ~conv.ok
        THEN Outcome(cell, visited, <<>>, FALSE,
                     At(Err("could not determine component name from reference %q", "", r.Ref), site),
                     Handled(site, r.Ref, r.Ref, "convert"))
        ELSE IF Visited(conv.ref)
        THEN Outcome(cell1, visited, <<>>, TRUE, NoErr, Handled(site, r.Ref, conv.ref, "skip"))
        ELSE IF found.err.st = "err"
        THEN Outcome(cell1, vis1, <<>>, FALSE, At(found.err, site),
                     Handled(site, r.Ref, conv.ref, "resolve"))
        ELSE IF found.val # NIL
        THEN Outcome(cell1, vis1, <<NewSchemaFrame(found.val, AssignAfter(c, found.val, FALSE))>>,
                     FALSE, NoErr, Handled(site, r.Ref, conv.ref, "resolve"))
        ELSE Outcome([cell1 EXCEPT ![c].Value = NIL], vis1, <<>>, FALSE, NoErr,
                     Handled(site, r.Ref, conv.ref, "resolve"))

\* a RequestBodyRef, ResponseRef or ParameterRef r of the operation: the new
\* Value in val; push holds the schema frame of a reference to a schema, whose
\* type assertion fails once it has been processed
TopOutcome(r, kind, site, found) ==
    LET vis1 == visited \cup {r.Ref}
        mismatch == At(Err("expected %s, got %T", kind, <<found.kind>>), site)
        done(val, vis, push, skip, err, lst) ==
            [val |-> val, visited |-> vis, push |-> push, skip |-> skip, err |-> err, last |-> lst]
    IN  IF r.Ref = <<>>
        THEN done(r.Value, visited, <<>>, FALSE, NoErr, last)
        ELSE IF Visited(r.Ref)
        THEN done(r.Value, visited, <<>>, TRUE, NoErr, Handled(site, r.Ref, r.Ref, "skip"))
        ELSE IF found.err.st = "err"
        THEN done(r.Value, vis1, <<>>, FALSE, At(found.err, site),
                  Handled(site, r.Ref, r.Ref, "resolve"))
        ELSE IF found.kind = kind
        THEN done(found.val, vis1, <<>>, FALSE, NoErr, Handled(site, r.Ref, r.Ref, "resolve"))
        ELSE IF found.kind = "schemas" /\ found.val # NIL
        THEN done(r.Value, vis1, <<NewSchemaFrame(found.val, TypeErrAfter(kind, site))>>, FALSE, NoErr,
                  Handled(site, r.Ref, r.Ref, "resolve"))
        ELSE done(r.Value, vis1, <<>>, FALSE, mismatch, Handled(site, r.Ref, r.Ref, "resolve"))

(* ---------------------------------------------------------------------- *)
(* Operation.ResolveReferences, one step of it per action                  *)
(* ---------------------------------------------------------------------- *)
OpFrame(phase, todo, idx) == Frame("op", NIL, phase, todo, idx, NoAfter)

AfterResponses ==
    IF Len(op.Parameters) > 0 THEN OpFrame("parameters", {}, 1) ELSE OpFrame("return", {}, 1)

AfterRequestBody ==
    IF DOMAIN op.Responses # {}
    THEN OpFrame("responses", DOMAIN op.Responses, 1)
    ELSE AfterResponses

AfterParameter(i) ==
    IF i < Len(op.Parameters) THEN OpFrame("parameters", {}, i + 1) ELSE OpFrame("return", {}, 1)

\* the effect of one RequestBodyRef, ResponseRef or ParameterRef: op1 is op
\* with the resolved Value stored, next the frames that follow when the
\* reference was resolved, onSkip the frame that follows when it was visited
ApplyTop(out, op1, next, onSkip) ==
    /\ visited' = out.visited
    /\ last' = out.last
    /\ IF out.err.st = "err"
       THEN result' = out.err /\ stack' = <<>> /\ op' = op
       ELSE /\ result' = result
            /\ IF out.push # <<>> THEN stack' = stack \o out.push /\ op' = op
               ELSE IF out.skip THEN stack' = Below \o <<onSkip>> /\ op' = op
               ELSE stack' = Below \o next /\ op' = op1
    /\ UNCHANGED <<rootSchema, cell, op0, cell0, nin, nout, others>>

\* the effect of one SchemaRef
ApplyCell(out, next, onSkip) ==
    /\ cell' = out.cell
    /\ visited' = out.visited
    /\ last' = out.last
    /\ IF out.err.st = "err"
       THEN result' = out.err /\ stack' = <<>>
       ELSE result' = result
            /\ stack' = Below \o <<IF out.skip THEN onSkip ELSE next>> \o out.push
    /\ UNCHANGED <<rootSchema, op, op0, cell0, nin, nout, others>>

\* one RequestBodyRef, ResponseRef or ParameterRef r: resolveComponentRef is
\* called once, on r.Ref; slot is where in op its Value is stored
ResolveTop(r, kind, site, slot, next, onSkip) ==
    \E found \in {resolveComponentRef(rootSchema, r.Ref)} :
    \E out \in {TopOutcome(r, kind, site, found)} :
        ApplyTop(out,
                 CASE slot[1] = "requestBody" -> [op EXCEPT !.RequestBody.Value = out.val]
                   [] slot[1] = "response" -> [op EXCEPT !.Responses[slot[2]].Value = out.val]
                   [] slot[1] = "parameter" -> [op EXCEPT !.Parameters[slot[2]].Value = out.val],
                 <<IF slot[1] = "parameter" /\ out.val # NIL
                   THEN OpFrame("parameterSchema", {}, slot[2]) ELSE next>>
                     \o ContentFrames(out.val, IF slot[1] = "parameter"
                                               THEN <<"parameter", out.val>> ELSE site),
                 onSkip)

\* the schema of a media type or of a parameter: convertSchemaRefToStandardFormat
\* and resolveComponentRef are called once each
ResolveContent(c, site, next) ==
    \E conv \in {convertSchemaRefToStandardFormat(cell[c].Ref)} :
    \E found \in {resolveComponentRef(rootSchema, conv.ref)} :
    \E out \in {ContentOutcome(c, site, conv, found)} :
        ApplyCell(out, next, next)

\* a member of a schema
ResolveMember(c, site, next, onSkip) ==
    \E conv \in {convertSchemaRefToStandardFormat(cell[c].Ref)} :
    \E found \in {resolveComponentRef(rootSchema, conv.ref)} :
    \E out \in {MemberOutcome(c, site, conv, found)} :
        ApplyCell(out, next, onSkip)

resolveRequestBodyRefs ==
    /\ Running /\ Top.fn = "op" /\ Top.phase = "requestBody"
    /\ ResolveTop(op.RequestBody, "requestBodies", <<"requestBody">>, <<"requestBody">>,
                  AfterRequestBody, AfterRequestBody)

resolveResponseRefs ==
    /\ Running /\ Top.fn = "op" /\ Top.phase = "responses"
    /\ \E status \in Top.todo :
          \E next \in {IF Top.todo = {status} THEN AfterResponses
                       ELSE [Top EXCEPT !.todo = @ \ {status}]} :
              ResolveTop(op.Responses[status], "responses", <<"response", status>>,
                         <<"response", status>>, next, next)

ParamName(p) == IF p.Value = NIL THEN p.Ref ELSE <<p.Value>>

\* the first half of an iteration of resolveParameterRefs: the ParameterRef
\* and the Content of its Value
resolveParameterRefs ==
    /\ Running /\ Top.fn = "op" /\ Top.phase = "parameters"
    /\ \E i \in {Top.idx} :
          ResolveTop(op.Parameters[i], "parameters", <<"parameter">> \o ParamName(op.Parameters[i]),
                     <<"parameter", i>>, AfterParameter(i), AfterParameter(i))

\* the second half: the Schema of the parameter
resolveParameterSchema ==
    /\ Running /\ Top.fn = "op" /\ Top.phase = "parameterSchema"
    /\ \E i \in {Top.idx} : \E v \in {op.Parameters[i].Value} :
          ResolveContent(ParamSchema(v), <<"parameter", v, "schema">>, AfterParameter(i))

resolveReferencesReturn ==
    /\ Running /\ Top.fn = "op" /\ Top.phase = "return"
    /\ result' = Ok
    /\ stack' = <<>>
    /\ UNCHANGED <<rootSchema, op, cell, visited, last, op0, cell0, nin, nout, others>>

resolveContentRefs ==
    /\ Running /\ Top.fn = "content" /\ Top.todo # {}
    /\ \E mediaType \in Top.todo :
          ResolveContent(Content(Top.obj)[mediaType],
                         Top.phase \o <<"content", mediaType, "schema">>,
                         [Top EXCEPT !.todo = @ \ {mediaType}])

resolveContentRefsReturn ==
    /\ Running /\ Top.fn = "content" /\ Top.todo = {}
    /\ stack' = Below
    /\ UNCHANGED <<rootSchema, op, cell, visited, result, last, op0, cell0, nin, nout, others>>

SchemaNext(k, i) == SchemaFrameAt(Top.obj, SchemaPos(Top.obj, k, i), {}, Top.after)

SchemaRet == SchemaFrameAt(Top.obj, <<7, 1>>, {}, Top.after)

processProperties ==
    /\ Running /\ Top.fn = "schema" /\ Top.phase = "properties"
    /\ \E p \in Top.todo :
          \E next \in {IF Top.todo = {p} THEN SchemaNext(2, 1)
                       ELSE [Top EXCEPT !.todo = @ \ {p}]} :
              ResolveMember(Properties(Top.obj)[p], <<"schema property">>, next, next)

processItems ==
    /\ Running /\ Top.fn = "schema" /\ Top.phase = "items"
    /\ ResolveMember(Items(Top.obj), <<"schema items">>, SchemaNext(3, 1), SchemaRet)

processAdditionalProperties ==
    /\ Running /\ Top.fn = "schema" /\ Top.phase = "additionalProperties"
    /\ ResolveMember(AdditionalProperties(Top.obj), <<"schema additionalProperties">>,
                     SchemaNext(4, 1), SchemaRet)

processAllOf ==
    /\ Running /\ Top.fn = "schema" /\ Top.phase = "allOf"
    /\ ResolveMember(AllOf(Top.obj)[Top.idx], <<"schema allOf">>,
                     SchemaNext(4, Top.idx + 1), SchemaNext(4, Top.idx + 1))

processAnyOf ==
    /\ Running /\ Top.fn = "schema" /\ Top.phase = "anyOf"
    /\ ResolveMember(AnyOf(Top.obj)[Top.idx], <<"schema anyOf">>,
                     SchemaNext(5, Top.idx + 1), SchemaNext(5, Top.idx + 1))

processOneOf ==
    /\ Running /\ Top.fn = "schema" /\ Top.phase = "oneOf"
    /\ ResolveMember(OneOf(Top.obj)[Top.idx], <<"schema oneOf">>,
                     SchemaNext(6, Top.idx + 1), SchemaNext(6, Top.idx + 1))

\* processSchemaRefs returns nil to resolveComponentRef, which returns the
\* schema to its caller
processSchemaRefsReturn ==
    /\ Running /\ Top.fn = "schema" /\ Top.phase = "return"
    /\ LET a == Top.after
       IN  /\ cell' = IF a.k = "assign" THEN [cell EXCEPT ![a.c].Value = a.val] ELSE cell
           /\ IF a.k = "typeErr"
              THEN /\ result' = At(Err("expected %s, got %T", a.c, <<"schemas">>), a.site)
                   /\ stack' = <<>>
              ELSE /\ result' = result
                   /\ stack' = Below \o (IF a.k = "assign" /\ a.again
                                         THEN <<NewSchemaFrame(a.val, NoAfter)>>
                                         ELSE <<>>)
    /\ UNCHANGED <<rootSchema, op, visited, last, op0, cell0, nin, nout, others>>

Resolve ==
    \/ resolveRequestBodyRefs
    \/ resolveResponseRefs
    \/ resolveParameterRefs
    \/ resolveParameterSchema
    \/ resolveReferencesReturn
    \/ resolveContentRefs
    \/ resolveContentRefsReturn
    \/ processProperties
    \/ processItems
    \/ processAdditionalProperties
    \/ processAllOf
    \/ processAnyOf
    \/ processOneOf
    \/ processSchemaRefsReturn

(* ---------------------------------------------------------------------- *)
(* the documents ResolveReferences is called on                            *)
(* ---------------------------------------------------------------------- *)
Canonical(kind, name) == <<"#", "/", "components", "/", kind, "/">> \o name

RefTo(ref) == [Ref |-> ref, Value |-> NIL]

Inline(obj) == [Ref |-> <<>>, Value |-> obj]

TopSlots == {"requestBody", "200", "404", "p1"}

\* what a route registration can put in a slot of the operation
TopChoices(x) ==
    CASE x = "requestBody" -> {RefTo(Canonical("requestBodies", <<"RB">>)), Inline("rbI")}
      [] x = "200" -> {RefTo(Canonical("responses", <<"R">>)), Inline("r200I")}
      [] x = "404" -> {RefTo(Canonical("responses", <<"R">>)), Inline("r404I")}
      [] x = "p1" -> {RefTo(Canonical("parameters", <<"P">>)), Inline("pI")}

\* what it can put in a SchemaRef
CellChoices(x) ==
    {RefTo(Canonical("schemas", <<"A">>)), RefTo(Canonical("schemas", <<"B">>)),
     RefTo(DefsPrefix \o <<"B">>), RefTo(Canonical("schemas", <<"Missing">>))}
        \cup (IF x = "N.x" THEN {} ELSE {Inline("sN")})

FullRoot == [Components |-> TRUE, Regs |-> Kinds]

\* the object the content v of slot x leads to
TargetOf(x, v) ==
    IF v.Ref = <<>> THEN v.Value
    ELSE IF x \in TopSlots THEN resolveComponentRef(FullRoot, v.Ref).val
    ELSE resolveComponentRef(FullRoot, convertSchemaRefToStandardFormat(v.Ref).ref).val

Building == [st |-> "building", msg |-> "", kind |-> "", arg |-> <<>>, site |-> <<>>]

\* the references the document holds so far
Used ==
    Cardinality({x \in Cells : cell[x] # EmptyRef})
        + (IF op.RequestBody # EmptyRef THEN 1 ELSE 0)
        + Cardinality(DOMAIN op.Responses)
        + Len(op.Parameters)

\* the objects the document reaches from the operation
Reached ==
    ({TargetOf("requestBody", op.RequestBody)}
        \cup {TargetOf(st, op.Responses[st]) : st \in DOMAIN op.Responses}
        \cup {TargetOf("p1", op.Parameters[i]) : i \in DOMAIN op.Parameters}
        \cup {TargetOf(x, cell[x]) : x \in Cells}) \ {NIL}

Owner(x) ==
    CHOOSE o \in SchemaObjs \cup BodyObjs :
        x \in (IF o \in SchemaObjs THEN MemberCells(o) ELSE ContentCells(o))

CanAdd == result.st = "building" /\ Used < MaxSlots

\* Operation.AddRequestBody, or a RequestBodyRef that names a component
AddRequestBody ==
    /\ CanAdd /\ op.RequestBody = EmptyRef
    /\ \E v \in TopChoices("requestBody") : op' = [op EXCEPT !.RequestBody = v]
    /\ UNCHANGED <<rootSchema, cell, visited, stack, result, last, op0, cell0, nin, nout, others>>

\* Operation.AddResponse, or a ResponseRef that names a component
AddResponse ==
    /\ CanAdd
    /\ \E status \in {"200", "404"} \ DOMAIN op.Responses :
          \E v \in TopChoices(status) : op' = [op EXCEPT !.Responses = @ @@ (status :> v)]
    /\ UNCHANGED <<rootSchema, cell, visited, stack, result, last, op0, cell0, nin, nout, others>>

\* Operation.AddParameter, or a ParameterRef that names a component
AddParameter ==
    /\ CanAdd /\ Len(op.Parameters) < 2
    /\ \E v \in TopChoices("p1") : op' = [op EXCEPT !.Parameters = Append(@, v)]
    /\ UNCHANGED <<rootSchema, cell, visited, stack, result, last, op0, cell0, nin, nout, others>>

\* a schema of a media type, of a parameter or of a member of a schema, in
\* an object the operation reaches
AddSchemaRef ==
    /\ CanAdd
    /\ \E x \in {y \in Cells : cell[y] = EmptyRef /\ Owner(y) \in Reached} :
          \E v \in CellChoices(x) : cell' = [cell EXCEPT ![x] = v]
    /\ UNCHANGED <<rootSchema, op, visited, stack, result, last, op0, cell0, nin, nout, others>>

NoneHandled == Handled(<<>>, <<>>, <<>>, "none")

EmptyOp == [RequestBody |-> EmptyRef, Responses |-> << >>, Parameters |-> <<>>]

\* no call has returned yet
NoFirst == [done |-> FALSE, op |-> EmptyOp, cell |-> [c \in Cells |-> EmptyRef], result |-> Building]

(* ---------------------------------------------------------------------- *)
(* Go values handed to a route definition, as reflect shows them           *)
(* ---------------------------------------------------------------------- *)
MaxObjs == 2

MaxLen == 1

\* the deepest chain of calls of checkForCycles that does not meet a type twice
MaxCalls == 2 * MaxObjs + 4

\* a reflect.Type: its Kind and the name of the struct or interface it is,
\* or points to
Type(k, n) == [k |-> k, n |-> n]

StructNames == {"Node", "Priv", "Emb", "A", "B", "Outer"}

\* reflect.StructField
StructField(name, type, exported, anonymous) ==
    [Name |-> name, Type |-> type, Exported |-> exported, Anonymous |-> anonymous]

\* the struct types: a list node, a struct with a private pointer to itself,
\* a struct that embeds a pointer to itself, two structs that point to each
\* other, a struct that holds the embedding struct by value and by pointer
Fields(n) ==
    CASE n = "Node" -> <<StructField("Name", Type("string", "string"), TRUE, FALSE),
                         StructField("Next", Type("ptr", "Node"), TRUE, FALSE)>>
      [] n = "Priv" -> <<StructField("Name", Type("string", "string"), TRUE, FALSE),
                         StructField("self", Type("ptr", "Priv"), FALSE, FALSE)>>
      [] n = "Emb" -> <<StructField("Emb", Type("ptr", "Emb"), TRUE, TRUE)>>
      [] n = "A" -> <<StructField("B", Type("ptr", "B"), TRUE, FALSE)>>
      [] n = "B" -> <<StructField("A", Type("ptr", "A"), TRUE, FALSE)>>
      [] n = "Outer" -> <<StructField("E", Type("struct", "Emb"), TRUE, FALSE),
                          StructField("P", Type("ptr", "Emb"), TRUE, FALSE)>>

\* the interface types a pointer can point to, and Type.NumMethod
NumMethod(n) == CASE n = "Reader" -> 1 [] n = "any" -> 0

\* Type.Elem of a pointer type
Elem(t) == IF t.n \in StructNames THEN Type("struct", t.n) ELSE Type("interface", t.n)

\* Type.Name: pointer, slice and map types have none
Name(t) == IF t.k \in {"struct", "string", "interface"} THEN t.n ELSE ""

\* a value: what it is, its dynamic type, the object a pointer, slice or map
\* refers to, the fields of a struct held by value
Val(k, t, o, f) == [k |-> k, t |-> t, o |-> o, f |-> f]

Prim == Val("prim", Type("string", "string"), 0, <<>>)

\* the nil interface value
Invalid == Val("invalid", Type("", ""), 0, <<>>)

NilPtr(n) == Val("nil", Type("ptr", n), 0, <<>>)

PtrTo(o, n) == Val("ptr", Type("ptr", n), o, <<>>)

\* the zero value of a struct type
Zero(n) ==
    LET ZeroField(t) ==
            CASE t.k = "string" -> Prim
              [] t.k = "ptr" -> NilPtr(t.n)
              [] t.k = "struct" ->
                    Val("struct", t, 0, [i \in DOMAIN Fields(t.n) |-> NilPtr(Fields(t.n)[i].Type.n)])
    IN  Val("struct", Type("struct", n), 0, [i \in DOMAIN Fields(n) |-> ZeroField(Fields(n)[i].Type)])

\* what reflect.Value.Elem gives for a pointer, the value itself otherwise;
\* "ref" is a slice or a map, "ptrToInterface" a non-nil pointer to a variable
\* of an interface type
Deref(h, v) ==
    CASE v.k \in {"ptr", "ref"} -> h[v.o]
      [] v.k = "ptrToInterface" -> Val("interface", Elem(v.t), 0, <<>>)
      [] OTHER -> v

(* ---------------------------------------------------------------------- *)
(* the cycle detector                                                      *)
(* ---------------------------------------------------------------------- *)
isPrimitiveType(v) == v.k = "prim"

isProblematicEmbeddedType(field, parentType) ==
    /\ field.Anonymous
    /\ (IF field.Type.k = "ptr" THEN Elem(field.Type) ELSE field.Type) = parentType

typeTrace(t, typeName) == [Type |-> t, TypeName |-> typeName]

CycOk == [st |-> "ok", trace |-> <<>>]

CycleErr(path, t) == [st |-> "cycle", trace |-> Append(path, typeTrace(t, Name(t)))]

\* no type is ever found in the path
InPathNever(path, t) == FALSE

\* for _, entry := range path { if entry.Type == t
InPath(path, t) == \E i \in DOMAIN path : path[i].Type = t

\* every field is followed
UnexportedNever(field) == FALSE

\* field.PkgPath != "" || !field.IsExported()
Unexported(field) == ~field.Exported

\* the fields of a struct the detector descends into, in order
Descended(t) ==
    LET fs == Fields(t.n)
        keep == {i \in DOMAIN fs : ~Unexported(fs[i]) /\ ~isProblematicEmbeddedType(fs[i], t)}
    IN  [j \in 1..Cardinality(keep) |->
            CHOOSE i \in keep : Cardinality({k \in keep : k < i}) = j - 1]

\* the outcomes of calls made one after the other, the first error returned
InOrder(R) ==
    {r \in UNION {R[i] : i \in DOMAIN R} :
        r # CycOk /\ \E i \in DOMAIN R : r \in R[i] /\ \A j \in 1..(i - 1) : CycOk \in R[j]}
    \cup (IF \A i \in DOMAIN R : CycOk \in R[i] THEN {CycOk} ELSE {})

\* the same in the order of val.MapKeys(), which is any order
AnyOrder(R) ==
    (UNION {R[i] : i \in DOMAIN R} \ {CycOk})
    \cup (IF \A i \in DOMAIN R : CycOk \in R[i] THEN {CycOk} ELSE {})

\* the results checkForCycles(v, path) can return on heap h; depth counts the
\* calls that are on the stack. "overflow": the goroutine's stack is exhausted;
\* "panic": reflect panics at t.Method(i), t a pointer type, which has no methods
RECURSIVE checkForCycles(_, _, _, _)
checkForCycles(h, v, path, depth) ==
    IF isPrimitiveType(v) \/ v.k = "invalid" THEN {CycOk}
    ELSE IF depth > MaxCalls THEN {[st |-> "overflow", trace |-> <<>>]}
    ELSE IF v.k = "struct"
            /\ \E i \in DOMAIN Fields(v.t.n) : isProblematicEmbeddedType(Fields(v.t.n)[i], v.t)
    THEN {[st |-> "embedded", trace |-> <<typeTrace(v.t, Name(v.t))>>]}
    ELSE IF v.k = "nil" THEN {CycOk}
    ELSE IF InPath(path, v.t) THEN {CycleErr(path, v.t)}
    ELSE LET t == v.t
             val == Deref(h, v)
             newPath == Append(path, typeTrace(t, Name(t)))
         IN  CASE val.k = "struct" ->
                    LET fs == Descended(val.t)
                        fieldTrace == typeTrace(val.t, Name(val.t))
                    IN  InOrder([j \in DOMAIN fs |->
                            checkForCycles(h, val.f[fs[j]], Append(newPath, fieldTrace), depth + 1)])
               [] val.k = "interface" ->
                    IF NumMethod(val.t.n) > 0 THEN {[st |-> "panic", trace |-> newPath]} ELSE {CycOk}
               [] val.t = Type("slice", "any") ->
                    InOrder([i \in DOMAIN val.f |->
                        checkForCycles(h, val.f[i], Append(newPath, typeTrace(t, "")), depth + 1)])
               [] val.t = Type("map", "any") ->
                    AnyOrder([i \in DOMAIN val.f |->
                        checkForCycles(h, val.f[i], Append(newPath, typeTrace(t, "")), depth + 1)])

\* no value checked, no schema reflected yet
NoCall == [st |-> "none", v |-> Invalid, trace |-> <<>>]

NoRet == [st |-> "none", Ref |-> <<>>, dup |-> FALSE]

\* Definitions{}: no parameter, no body, no response
EmptyDefinitions ==
    [Parameters |-> <<>>, PathParams |-> [nil |-> TRUE, m |-> <<>>], Querystring |-> <<>>,
     Headers |-> <<>>, Cookies |-> <<>>, RequestBody |-> <<>>, Responses |-> <<>>]

\* no call on a Router yet
NoCalled ==
    [op |-> "none", r |-> 0, host |-> "", path |-> <<>>, err |-> FALSE, ret |-> 0,
     changed |-> FALSE, via |-> "none", status |-> 0, h |-> 0,
     oasPath |-> <<>>, served |-> <<>>, defs |-> EmptyDefinitions, Parameters |-> <<>>]

NoOptions == [PathPrefix |-> <<>>, FrameworkRouterFactory |-> FALSE, CustomServeHTTPHandler |-> FALSE]

OthersInit ==
    /\ first = NoFirst
    /\ heap = <<>>
    /\ cyc = NoCall
    /\ schemas = << >>
    /\ ret = NoRet
    /\ opts = NoOptions
    /\ routers = <<>>
    /\ hostRouters = <<>>
    /\ docs = <<>>
    /\ fw = <<>>
    /\ mux = <<>>
    /\ given = EmptyDefinitions
    /\ called = NoCalled

\* Operation.ResolveReferences(rootSchema) is called
ResolveReferences ==
    /\ result.st = "building"
    /\ result' = NoErr
    /\ visited' = {}
    /\ stack' = <<OpFrame("requestBody", {}, 1)>>
    /\ op0' = op
    /\ cell0' = cell
    /\ UNCHANGED <<rootSchema, op, cell, last, nin, nout, others>>

Init ==
    /\ rootSchema = FullRoot
    /\ op = EmptyOp
    /\ cell = [c \in Cells |-> EmptyRef]
    /\ visited = {}
    /\ stack = <<>>
    /\ result = Building
    /\ last = NoneHandled
    /\ op0 = op
    /\ cell0 = cell
    /\ nin = <<>>
    /\ nout = <<>>
    /\ OthersInit

Build == AddRequestBody \/ AddResponse \/ AddParameter \/ AddSchemaRef \/ ResolveReferences

Next == Build \/ Resolve

Spec == Init /\ [][Next]_vars

(* ---------------------------------------------------------------------- *)
(* one reference of any spelling, at each place a reference can stand      *)
(* ---------------------------------------------------------------------- *)
\* the number of path segments of a pointer
MaxSegs == 3

\* the strings of at most n segments over the segments in segs, joined by "/"
RECURSIVE Paths(_, _)
Paths(segs, n) ==
    IF n = 1 THEN segs
    ELSE LET prev == Paths(segs, n - 1)
         IN  prev \cup {p \o <<"/">> \o sg : p \in prev, sg \in segs}

RefSegs ==
    {<<"components">>, <<"schemas">>, <<"responses">>, <<"parameters">>, <<"requestBodies">>,
     <<"$defs">>, <<"A">>, <<"Missing">>}

\* pointers with and without the document-root marker
RefStrings == LET ps == Paths(RefSegs, MaxSegs) IN ps \cup {Root \o p : p \in ps}

\* rootSchema: everything registered, no Components, no schemas registry,
\* only the schemas registry
RootSchemas ==
    {FullRoot,
     [Components |-> FALSE, Regs |-> {}],
     [Components |-> TRUE, Regs |-> Kinds \ {"schemas"}],
     [Components |-> TRUE, Regs |-> {"schemas"}]}

RefSites ==
    {"requestBody", "response", "parameter", "content", "parameterSchema"}
        \cup (MemberCells("sA") \ {"A.c"})

\* the operation and the SchemaRefs of a document whose reference at site is x
SiteOp(site, x) ==
    CASE site = "requestBody" -> [EmptyOp EXCEPT !.RequestBody = RefTo(x)]
      [] site = "response" -> [EmptyOp EXCEPT !.Responses = "200" :> RefTo(x)]
      [] site = "parameter" -> [EmptyOp EXCEPT !.Parameters = <<RefTo(x)>>]
      [] site = "parameterSchema" -> [EmptyOp EXCEPT !.Parameters = <<Inline("pI")>>]
      [] OTHER -> [EmptyOp EXCEPT !.RequestBody = Inline("rbI")]

SiteCells(site, x) ==
    [c \in Cells |->
        IF c = site THEN RefTo(x)
        ELSE IF c = "pI.schema" /\ site = "parameterSchema" THEN RefTo(x)
        ELSE IF c = "rbI.json" /\ site = "content" THEN RefTo(x)
        ELSE IF c = "rbI.json" /\ site \in MemberCells("sA") THEN RefTo(Canonical("schemas", <<"A">>))
        ELSE EmptyRef]

InitRef ==
    \E rs \in RootSchemas : \E site \in RefSites : \E x \in RefStrings :
        /\ rootSchema = rs
        /\ op = SiteOp(site, x)
        /\ cell = SiteCells(site, x)
        /\ visited = {}
        /\ stack = <<OpFrame("requestBody", {}, 1)>>
        /\ result = NoErr
        /\ last = NoneHandled
        /\ op0 = op
        /\ cell0 = cell
        /\ nin = <<>>
        /\ nout = <<>>
        /\ OthersInit

SpecRef == InitRef /\ [][Resolve]_vars

(* ---------------------------------------------------------------------- *)
(* the normalizer called on its own                                        *)
(* ---------------------------------------------------------------------- *)
\* the empty segment gives the pointers that start or end in "/" and the
\* pointers "" and "#/"
NormSegs == RefSegs \cup {<<"definitions">>, <<>>}

NormStrings == LET ps == Paths(NormSegs, MaxSegs) IN ps \cup {Root \o p : p \in ps}

InitNorm ==
    /\ nin \in NormStrings
    /\ nout = <<>>
    /\ rootSchema = FullRoot
    /\ op = EmptyOp
    /\ cell = [c \in Cells |-> EmptyRef]
    /\ visited = {}
    /\ stack = <<>>
    /\ result = Building
    /\ last = NoneHandled
    /\ op0 = op
    /\ cell0 = cell
    /\ OthersInit

\* convertSchemaRefToStandardFormat(nin)
Normalize ==
    /\ nout = <<>>
    /\ nout' = <<convertSchemaRefToStandardFormat(nin)>>
    /\ UNCHANGED <<rootSchema, op, cell, visited, stack, result, last, op0, cell0, nin, others>>

\* convertSchemaRefToStandardFormat on the ref the first call returned
NormalizeAgain ==
    /\ Len(nout) = 1 /\ nout[1].ok
    /\ nout' = Append(nout, convertSchemaRefToStandardFormat(nout[1].ref))
    /\ UNCHANGED <<rootSchema, op, cell, visited, stack, result, last, op0, cell0, nin, others>>

NextNorm == Normalize \/ NormalizeAgain

SpecNorm == InitNorm /\ [][NextNorm]_vars

(* ---------------------------------------------------------------------- *)
(* two calls of ResolveReferences                                          *)
(* ---------------------------------------------------------------------- *)
Outcome1 == [done |-> TRUE, op |-> op, cell |-> cell, result |-> result]

\* a second call on an operation and a document equal to the ones the first
\* call was given
ResolveAnew ==
    /\ result.st \in {"ok", "err"} /\ ~first.done
    /\ first' = Outcome1
    /\ op' = op0
    /\ cell' = cell0
    /\ visited' = {}
    /\ stack' = <<OpFrame("requestBody", {}, 1)>>
    /\ result' = NoErr
    /\ last' = NoneHandled
    /\ UNCHANGED <<rootSchema, op0, cell0, nin, nout, heap, cyc, schemas, ret, routing>>

SpecAnew == Init /\ [][Next \/ ResolveAnew]_vars

\* a second call on the operation and the document as the first, successful
\* call left them
ResolveAgain ==
    /\ result.st = "ok" /\ ~first.done
    /\ first' = Outcome1
    /\ visited' = {}
    /\ stack' = <<OpFrame("requestBody", {}, 1)>>
    /\ result' = NoErr
    /\ last' = NoneHandled
    /\ op0' = op
    /\ cell0' = cell
    /\ UNCHANGED <<rootSchema, op, cell, nin, nout, heap, cyc, schemas, ret, routing>>

SpecAgain == Init /\ [][Next \/ ResolveAgain]_vars

(* ---------------------------------------------------------------------- *)
(* route registration: the values of a route definition and their schemas  *)
(* ---------------------------------------------------------------------- *)
\* the values a variable of static type t can hold on heap h; those of an
\* interface type (any) are every value with a dynamic type
ValuesOf(h, t) ==
    CASE t.k = "ptr" /\ t.n \in StructNames ->
            {NilPtr(t.n)} \cup {PtrTo(o, t.n) : o \in {x \in DOMAIN h : h[x].t = Elem(t)}}
      [] t.k = "struct" -> {h[o] : o \in {x \in DOMAIN h : h[x].t = t}}
      [] t.k = "string" -> {Prim}
      [] t.k = "interface" ->
            {Prim, Invalid}
                \cup {Val("ptrToInterface", Type("ptr", n), 0, <<>>) : n \in {"Reader", "any"}}
                \cup {NilPtr(n) : n \in StructNames}
                \cup {PtrTo(o, h[o].t.n) : o \in {x \in DOMAIN h : h[x].k = "struct"}}
                \cup {h[o] : o \in {x \in DOMAIN h : h[x].k = "struct"}}
                \cup {Val("ref", h[o].t, o, <<>>) : o \in {x \in DOMAIN h : h[x].k # "struct"}}

\* new(T), make([]any, n), make(map[string]any) with n keys
Alloc ==
    /\ Len(heap) < MaxObjs /\ cyc = NoCall
    /\ \/ \E n \in StructNames : heap' = Append(heap, Zero(n))
       \/ \E t \in {Type("slice", "any"), Type("map", "any")}, n \in 0..MaxLen :
            heap' = Append(heap, Val(t.k, t, 0, [i \in 1..n |-> Invalid]))
    /\ UNCHANGED <<rootSchema, op, cell, visited, stack, result, last, op0, cell0, nin, nout,
                   first, cyc, schemas, ret, routing>>

\* o.Field = x, s[i] = x, m[key] = x
Assign ==
    /\ cyc = NoCall
    /\ \E o \in DOMAIN heap : \E i \in DOMAIN heap[o].f :
        \E x \in ValuesOf(heap, IF heap[o].k = "struct" THEN Fields(heap[o].t.n)[i].Type
                                ELSE Type("interface", "any")) :
            heap' = [heap EXCEPT ![o].f[i] = x]
    /\ UNCHANGED <<rootSchema, op, cell, visited, stack, result, last, op0, cell0, nin, nout,
                   first, cyc, schemas, ret, routing>>

\* the names jsonschema gives the definitions of a reflected value, sorted
DefNames == <<<<"A">>, <<"B">>>>

MaxBodies == 2

\* what Reflector.Reflect can give: the schema's own $ref, and Definitions:
\* name -> the definition's $ref and its content
Reflections ==
    LET Defs == [Ref : {<<>>, DefsPrefix \o <<"B">>}, body : 1..MaxBodies]
    IN  [Ref : {<<>>, DefsPrefix \o <<"A">>},
         Definitions : UNION {[D -> Defs] : D \in SUBSET {DefNames[i] : i \in DOMAIN DefNames}}]

\* the registry after a definition is stored whatever the registry holds
LiftAlways(reg, defs, name) ==
    IF name \notin DOMAIN defs THEN reg
    ELSE LET componentName == determineComponentName(defs[name].Ref, name)
         IN  (componentName :> defs[name].body) @@ reg

\* the registry after one turn of the loop over defNames
Lift(reg, defs, name) ==
    IF name \notin DOMAIN defs THEN reg
    ELSE LET componentName == determineComponentName(defs[name].Ref, name)
         IN  IF componentName \in DOMAIN reg THEN reg
             ELSE reg @@ (componentName :> defs[name].body)

\* the registry after the loop over the first n of defNames
LiftAll(reg, defs, n) ==
    IF n = 0 THEN reg
    ELSE IF n = 1 THEN Lift(reg, defs, DefNames[1])
    ELSE Lift(Lift(reg, defs, DefNames[1]), defs, DefNames[2])

\* getSchemaFromInterface(v, _), v # nil; marshalling fails at definition
\* number failAt (0: never). ret.dup: a definition came under a name the
\* registry held with other content
getSchemaFromInterface ==
    LET HasAnonymous(v) ==
            LET val == Deref(heap, v)
            IN  val.k = "struct" /\ \E i \in DOMAIN Fields(val.t.n) : Fields(val.t.n)[i].Anonymous
        Duplicate(defs) ==
            \E name \in DOMAIN defs :
                LET componentName == determineComponentName(defs[name].Ref, name)
                IN  componentName \in DOMAIN schemas /\ schemas[componentName] # defs[name].body
    IN
    \E v \in ValuesOf(heap, Type("interface", "any")) \ {Invalid} :
    \E r \in checkForCycles(heap, v, <<>>, 1) :
        /\ cyc' = [st |-> r.st, v |-> v, trace |-> r.trace]
        /\ IF r.st # "ok"
           THEN /\ ret' = [st |-> IF r.st = "cycle" \/ r.st = "embedded" THEN "err" ELSE r.st,
                           Ref |-> <<>>, dup |-> FALSE]
                /\ UNCHANGED schemas
           ELSE IF HasAnonymous(v)
           THEN /\ ret' = [st |-> "err", Ref |-> <<>>, dup |-> FALSE]
                /\ UNCHANGED schemas
           ELSE \E js \in Reflections, failAt \in 0..Len(DefNames) :
                /\ failAt # 0 => DefNames[failAt] \in DOMAIN js.Definitions
                /\ schemas' = LiftAll(schemas, js.Definitions,
                                      IF failAt = 0 THEN Len(DefNames) ELSE failAt - 1)
                /\ ret' = [st |-> IF failAt = 0 THEN "ok" ELSE "err",
                           Ref |-> IF failAt = 0 THEN js.Ref ELSE <<>>,
                           dup |-> failAt = 0 /\ Duplicate(js.Definitions)]
        /\ UNCHANGED <<rootSchema, op, cell, visited, stack, result, last, op0, cell0, nin, nout,
                       first, heap, routing>>

\* one value is built and handed over
NextCycles == Alloc \/ Assign \/ (cyc = NoCall /\ getSchemaFromInterface)

SpecCycles == Init /\ [][NextCycles]_vars

\* routes are registered one after the other, their values fresh
NextLift == (heap = <<>> /\ Alloc) \/ getSchemaFromInterface

SpecLift == Init /\ [][NextLift]_vars

(* ---------------------------------------------------------------------- *)
(* ResolveAllComponents: the resolver that keeps no visited set            *)
(* ---------------------------------------------------------------------- *)
\* the references the schemas of the registry hold
MaxRefs == 2

\* componentTypes, in the order they are processed
ComponentTypes == <<"schemas", "parameters", "requestBodies", "responses">>

\* a member of a component schema is given a reference or an inline schema;
\* the components of the other kinds hold no references
AddComponentRef ==
    /\ result.st = "building"
    /\ Cardinality({x \in Cells : cell[x] # EmptyRef}) < MaxRefs
    /\ \E x \in MemberCells("sA") \cup MemberCells("sB") :
          /\ cell[x] = EmptyRef
          /\ \E v \in CellChoices(x) : cell' = [cell EXCEPT ![x] = v]
    /\ UNCHANGED <<rootSchema, op, visited, stack, result, last, op0, cell0, nin, nout, others>>

\* a call of processSchemaRefs(rootSchema, s): the members done, the member
\* at hand and how far its iteration is
CallOf(fn, s, todo) == [fn |-> fn, s |-> s, todo |-> todo, done |-> {}, c |-> NIL, pc |-> "next"]

\* the stack after a call is made: the goroutine's stack is exhausted when
\* the calls nest deeper than any schema graph without a cycle makes them
Calling(stk, call) == IF Len(stk) >= MaxDepth THEN <<>> ELSE Append(stk, call)

ResolveAllComponents ==
    /\ result.st = "building"
    /\ IF ~rootSchema.Components
       THEN result' = Ok /\ stack' = <<>>
       ELSE /\ result' = NoErr
            /\ stack' = <<CallOf("components", NIL,
                    UNION {{<<i, n>> : n \in DOMAIN Entries(ComponentTypes[i])} :
                            i \in {j \in 1..4 : ComponentTypes[j] \in rootSchema.Regs}})>>
    /\ UNCHANGED <<rootSchema, op, cell, visited, last, op0, cell0, nin, nout, others>>

\* one turn of the loops over componentTypes and ct.values: the component has
\* no Ref, processNestedRefs(getValue(comp)) is called
processNestedRefs ==
    /\ result.st = "running" /\ stack # <<>> /\ Top.fn = "components"
    /\ IF Top.todo = {}
       THEN result' = Ok /\ stack' = <<>>
       ELSE \E e \in {x \in Top.todo : \A y \in Top.todo : x[1] <= y[1]} :
            LET val == Entries(ComponentTypes[e[1]])[e[2]]
                stk == Below \o <<[Top EXCEPT !.todo = @ \ {e}]>>
            IN  /\ stack' = IF e[1] = 1 /\ val # NIL
                            THEN Calling(stk, CallOf("schema", val, {}))
                            ELSE stk
                /\ result' = IF stack' = <<>> THEN [NoErr EXCEPT !.st = "overflow"] ELSE result
    /\ UNCHANGED <<rootSchema, op, cell, visited, last, op0, cell0, nin, nout, others>>

\* one step of processSchemaRefs(rootSchema, schema) and of the
\* resolveComponentRef it calls: both call processSchemaRefs on the schema found
processSchemaRefs ==
    /\ result.st = "running" /\ stack # <<>> /\ Top.fn = "schema"
    /\ LET s == Top.s
           left == {x \in MemberCells(s) : cell[x] # EmptyRef} \ Top.done
           props == {Properties(s)[p] : p \in DOMAIN Properties(s)} \cap left
           rest == SelectSeq(<<Items(s), AdditionalProperties(s)>> \o AllOf(s) \o AnyOf(s) \o OneOf(s),
                             LAMBDA x : x \in left)
           Fail(e) == result' = e /\ stack' = <<>> /\ UNCHANGED cell
           Call(top, val) ==
               /\ stack' = Calling(Below \o <<top>>, CallOf("schema", val, {}))
               /\ result' = IF stack' = <<>> THEN [NoErr EXCEPT !.st = "overflow"] ELSE result
           Done(c) ==
               /\ stack' = Below \o <<[Top EXCEPT !.done = @ \cup {c}, !.c = NIL, !.pc = "next"]>>
               /\ UNCHANGED result
       IN  CASE Top.pc = "next" /\ left = {} ->
                    stack' = Below /\ UNCHANGED <<result, cell>>
             [] Top.pc = "next" /\ left # {} ->
                    \E c \in (IF props # {} THEN props ELSE {rest[1]}) :
                    \E conv \in {convertSchemaRefToStandardFormat(cell[c].Ref)} :
                    \E found \in {resolveComponentRef(rootSchema, conv.ref)} :
                        IF cell[c].Ref = <<>>
                        THEN Call([Top EXCEPT !.c = c, !.pc = "descended"], cell[c].Value)
                             /\ UNCHANGED cell
                        ELSE IF ~conv.ok
                        THEN Fail(Err("could not determine component name from reference %q",
                                      "", cell[c].Ref))
                        ELSE IF found.err.st = "err"
                        THEN /\ result' = found.err /\ stack' = <<>>
                             /\ cell' = [cell EXCEPT ![c].Ref = conv.ref]
                        ELSE /\ cell' = [cell EXCEPT ![c].Ref = conv.ref]
                             /\ IF found.val # NIL
                                THEN Call([Top EXCEPT !.c = c, !.pc = "resolved"], found.val)
                                ELSE Done(c)
             [] Top.pc = "resolved" ->
                    \E found \in {resolveComponentRef(rootSchema, cell[Top.c].Ref)} :
                        /\ cell' = [cell EXCEPT ![Top.c].Value = found.val]
                        /\ Call([Top EXCEPT !.pc = "descended"], found.val)
             [] Top.pc = "descended" ->
                    Done(Top.c) /\ UNCHANGED cell
    /\ UNCHANGED <<rootSchema, op, visited, last, op0, cell0, nin, nout, others>>

NextAll == AddComponentRef \/ ResolveAllComponents \/ processNestedRefs \/ processSchemaRefs

SpecAll == Init /\ [][NextAll]_vars

(* ---------------------------------------------------------------------- *)
(* the Router: NewRouter, Group, Host, AddRoute, documentation, ServeHTTP   *)
(* ---------------------------------------------------------------------- *)
\* A path is the sequence of its segments, "/a/x" is <<"a", "x">>, and
\* path.Join is concatenation. The framework router is gorilla's. A handler
\* is named by the router that registered it, -d is the handler that serves
\* document d, 0 is no handler.
MaxRouters == 3

MaxRoutes == 2

DefaultJSONDocumentationPath == <<"documentation", "json">>

DefaultYAMLDocumentationPath == <<"documentation", "yaml">>

\* every router's rootRouter field: the first router
rootRouter == 1

Hosts == {"h", "g"}

Options ==
    [PathPrefix : {<<>>, <<"documentation">>},
     FrameworkRouterFactory : BOOLEAN, CustomServeHTTPHandler : BOOLEAN]

\* the variables of the resolver, the normalizer and the schema registry
resolving ==
    <<rootSchema, op, cell, visited, stack, result, last, op0, cell0, nin, nout,
      first, heap, cyc, schemas, ret>>

\* the number of routes the mux routers hold
Routes == Cardinality({i \in DOMAIN mux : mux[i].sub = 0})

\* gorillaRouter.Group(pathPrefix) on the framework router g: mux puts the
\* template of a subrouter after the template of the router it is made on
gorillaGroup(g, pathPrefix) ==
    LET fullPrefix == g.pathPrefix \o pathPrefix
    IN  [tpl |-> g.tpl \o fullPrefix, pathPrefix |-> fullPrefix]

\* NewRouter(frameworkRouter, options), the document valid
NewRouter ==
    /\ routers = <<>>
    /\ \E options \in Options :
        LET top == [tpl |-> <<>>, pathPrefix |-> <<>>]
            sub == gorillaGroup(top, options.PathPrefix)
        IN  /\ opts' = options
            /\ fw' = IF options.PathPrefix # <<>> THEN <<top, sub>> ELSE <<top>>
            /\ mux' = IF options.PathPrefix # <<>>
                      THEN <<[on |-> 1, sub |-> 2, path |-> sub.tpl, h |-> 0]>> ELSE <<>>
            /\ routers' = <<[router |-> IF options.PathPrefix # <<>> THEN 2 ELSE 1,
                             swaggerSchema |-> 1, pathPrefix |-> options.PathPrefix,
                             host |-> "", isSubrouter |-> FALSE]>>
    /\ docs' = <<[Paths |-> <<>>, Schemas |-> {}]>>
    /\ hostRouters' = <<>>
    /\ called' = [NoCalled EXCEPT !.op = "NewRouter", !.ret = rootRouter]
    /\ UNCHANGED <<resolving, given>>

\* the document a group of router r writes to, as if every group wrote to the root's
schemaToShareRoot(r) == routers[rootRouter].swaggerSchema

\* the document a group of router r writes to
schemaToShare(r) ==
    IF routers[r].host # "" THEN routers[r].swaggerSchema
    ELSE routers[rootRouter].swaggerSchema

\* r.Group(pathPrefix)
Group ==
    /\ routers # <<>> /\ Len(routers) < MaxRouters
    /\ \E r \in DOMAIN routers, pathPrefix \in {<<"a">>} :
        LET apiGroupRouter == gorillaGroup(fw[routers[r].router], pathPrefix)
        IN  /\ fw' = Append(fw, apiGroupRouter)
            /\ mux' = Append(mux, [on |-> routers[r].router, sub |-> Len(fw) + 1,
                                   path |-> apiGroupRouter.tpl, h |-> 0])
            /\ routers' = Append(routers,
                    [router |-> Len(fw) + 1, swaggerSchema |-> schemaToShare(r),
                     pathPrefix |-> routers[r].pathPrefix \o pathPrefix,
                     host |-> routers[r].host, isSubrouter |-> TRUE])
            /\ called' = [NoCalled EXCEPT !.op = "Group", !.r = r, !.path = pathPrefix,
                                          !.ret = Len(routers) + 1]
    /\ UNCHANGED <<resolving, opts, hostRouters, docs, given>>

\* r.hostRouters[host] as if the map never held the host
existingRouterNever(host) == 0

\* r.hostRouters[host], 0 when the map does not hold the host
existingRouter(host) == IF host \in DOMAIN hostRouters THEN hostRouters[host] ELSE 0

\* r.Host(host)
Host ==
    /\ routers # <<>>
    /\ \E r \in DOMAIN routers, host \in Hosts \cup {""} :
        LET fail == [NoCalled EXCEPT !.op = "Host", !.r = r, !.host = host, !.err = TRUE]
        IN  IF r # rootRouter \/ host = ""
            THEN called' = fail /\ UNCHANGED <<routers, hostRouters, docs, fw>>
            ELSE IF existingRouter(host) # 0
            THEN /\ called' = [fail EXCEPT !.err = FALSE, !.ret = existingRouter(host)]
                 /\ UNCHANGED <<routers, hostRouters, docs, fw>>
            ELSE IF ~opts.FrameworkRouterFactory
            THEN called' = fail /\ UNCHANGED <<routers, hostRouters, docs, fw>>
            ELSE /\ Len(routers) < MaxRouters
                 /\ fw' = Append(fw, [tpl |-> <<>>, pathPrefix |-> <<>>])
                 /\ docs' = Append(docs, [Paths |-> <<>>, Schemas |-> {}])
                 /\ routers' = Append(routers,
                        [router |-> Len(fw) + 1, swaggerSchema |-> Len(docs) + 1,
                         pathPrefix |-> <<>>, host |-> host, isSubrouter |-> FALSE])
                 /\ hostRouters' = (host :> Len(routers) + 1) @@ hostRouters
                 /\ called' = [fail EXCEPT !.err = FALSE, !.ret = Len(routers) + 1,
                                           !.changed = TRUE]
    /\ UNCHANGED <<resolving, opts, mux, given>>

\* AddRawRoute(method, routePath, handler, operation) on router r, the
\* document being d: the operation is stored, the handler registered
addRawRoute(r, routePath, d, name, parameters) ==
    LET pathWithPrefix == routers[r].pathPrefix \o routePath
        registered == IF routers[r].isSubrouter THEN routePath ELSE pathWithPrefix
        served == fw[routers[r].router].tpl \o registered
    IN  /\ docs' = [d EXCEPT ![routers[r].swaggerSchema].Paths =
                        (pathWithPrefix :> [by |-> r, Parameters |-> parameters]) @@ @]
        /\ mux' = Append(mux, [on |-> routers[r].router, sub |-> 0, path |-> served, h |-> r])
        /\ called' = [NoCalled EXCEPT !.op = name, !.r = r, !.path = routePath,
                                      !.changed = TRUE, !.oasPath = pathWithPrefix,
                                      !.served = served, !.defs = given,
                                      !.Parameters = parameters]

RoutePaths == {<<"x">>, <<"{id}">>}

AddRawRoute ==
    /\ routers # <<>> /\ Routes < MaxRoutes
    /\ \E r \in DOMAIN routers, routePath \in {<<"x">>} :
        addRawRoute(r, routePath, docs, "AddRawRoute", <<>>)
    /\ UNCHANGED <<resolving, opts, routers, hostRouters, fw, given>>

(* ---------------------------------------------------------------------- *)
(* AddRoute: from Definitions to an operation                              *)
(* ---------------------------------------------------------------------- *)
\* A schema or content of a definition is named by what converting it does:
\* ok, whether getSchemaFromInterface succeeds, and lifted, the components
\* it stores while it runs. A ContentValue is the sequence of its media
\* types' schemas in sorted order.
ParamNames == <<"id", "q">>

paramLocationOrder == [path |-> 0, query |-> 1, header |-> 2, cookie |-> 3]

Conversions == {[ok |-> TRUE, lifted |-> {}], [ok |-> TRUE, lifted |-> {"A"}],
                [ok |-> FALSE, lifted |-> {}]}

\* a ParameterValue with one entry
ParameterValueOf(name, required) ==
    {(name :> p) : p \in [Required : required, Description : {"legacy"}, ok : {TRUE}]}

\* the literal handed to the first AddRoute is written, one field at a time
Define ==
    /\ called.op \in {"NewRouter", "Define"}
    /\ \/ /\ given.Parameters = <<>>
          /\ \E name \in {ParamNames[i] : i \in DOMAIN ParamNames} :
             \E p \in [In : {"path", "query"}, Required : BOOLEAN,
                       Description : {"definition"}, ok : BOOLEAN] :
                given' = [given EXCEPT !.Parameters = (name :> p)]
       \/ /\ given.PathParams.nil
          /\ \E m \in ParameterValueOf("id", BOOLEAN) :
                given' = [given EXCEPT !.PathParams = [nil |-> FALSE, m |-> m]]
       \/ /\ given.Querystring = <<>>
          /\ \E m \in ParameterValueOf("q", BOOLEAN) : given' = [given EXCEPT !.Querystring = m]
       \/ \E f \in {"Headers", "Cookies"} :
            /\ given[f] = <<>>
            /\ \E m \in ParameterValueOf("q", {FALSE}) : given' = [given EXCEPT ![f] = m]
       \/ \E f \in {"RequestBody", "Responses"} :
            /\ given[f] = <<>>
            /\ \E c \in Conversions : given' = [given EXCEPT ![f] = <<<<c>>>>]
    /\ called' = [NoCalled EXCEPT !.op = "Define"]
    /\ UNCHANGED <<resolving, opts, routers, hostRouters, docs, fw, mux>>

\* getPathParamsAutoComplete(schema, path)
getPathParamsAutoComplete(schema, path) ==
    IF ~schema.PathParams.nil THEN schema.PathParams.m
    ELSE [name \in {"id"} \cap {IF path[i] = "{id}" THEN "id" ELSE "" : i \in DOMAIN path} |->
            [Required |-> FALSE, Description |-> "", ok |-> TRUE]]

\* allParams as if the legacy fields were entered before Definitions.Parameters
allParamsLegacyFirst(schema, path) ==
    LET From(m, in, required) ==
            [name \in DOMAIN m |-> [In |-> in, Required |-> required \/ m[name].Required,
                                    Description |-> m[name].Description, ok |-> m[name].ok]]
    IN  From(getPathParamsAutoComplete(schema, path), "path", TRUE)
            @@ From(schema.Querystring, "query", FALSE)
            @@ From(schema.Headers, "header", FALSE)
            @@ From(schema.Cookies, "cookie", FALSE)
            @@ schema.Parameters

\* allParams of AddRoute: name -> ParameterDefinition
allParams(schema, path) ==
    LET From(m, in, required) ==
            [name \in DOMAIN m |-> [In |-> in, Required |-> required \/ m[name].Required,
                                    Description |-> m[name].Description, ok |-> m[name].ok]]
    IN  schema.Parameters
            @@ From(getPathParamsAutoComplete(schema, path), "path", TRUE)
            @@ From(schema.Querystring, "query", FALSE)
            @@ From(schema.Headers, "header", FALSE)
            @@ From(schema.Cookies, "cookie", FALSE)

\* the parameters of the operation: sorted by location, then by name; a
\* parameter whose schema cannot be converted is left out
Parameters(all) ==
    LET key(name) == 10 * paramLocationOrder[all[name].In]
                        + (CHOOSE i \in DOMAIN ParamNames : ParamNames[i] = name)
        sortedParamNames ==
            [i \in 1..Cardinality(DOMAIN all) |->
                CHOOSE name \in DOMAIN all :
                    Cardinality({other \in DOMAIN all : key(other) < key(name)}) = i - 1]
        kept == SelectSeq(sortedParamNames, LAMBDA name : all[name].ok)
    IN  [i \in DOMAIN kept |->
            [In |-> all[kept[i]].In, Name |-> kept[i], Required |-> all[kept[i]].Required,
             Description |-> all[kept[i]].Description]]

\* addContentToOASSchema over the contents of a body or of the responses,
\* the registry being reg: whether it failed, and the registry it leaves
addContentToOASSchema(contents, reg) ==
    LET all == IF contents = <<>> THEN <<>> ELSE contents[1]
        bad == {i \in DOMAIN all : ~all[i].ok}
        upto == IF bad = {} THEN Len(all) ELSE CHOOSE i \in bad : \A j \in bad : i <= j
    IN  [err |-> bad # {}, Schemas |-> reg \cup UNION {all[i].lifted : i \in 1..upto}]

\* r.AddRoute(method, path, handler, schema), the schema being the literal written
AddRoute ==
    /\ routers # <<>> /\ Routes < MaxRoutes
    /\ \E r \in DOMAIN routers, path \in RoutePaths :
        LET d == routers[r].swaggerSchema
            parameters == Parameters(allParams(given, path))
            body == addContentToOASSchema(given.RequestBody, docs[d].Schemas)
            responses == addContentToOASSchema(given.Responses, body.Schemas)
            after == IF body.err THEN body.Schemas ELSE responses.Schemas
        IN  IF body.err \/ responses.err
            THEN /\ docs' = [docs EXCEPT ![d].Schemas = after]
                 /\ called' = [NoCalled EXCEPT !.op = "AddRoute", !.r = r, !.path = path,
                                               !.err = TRUE, !.defs = given,
                                               !.changed = (after # docs[d].Schemas)]
                 /\ UNCHANGED mux
            ELSE addRawRoute(r, path, [docs EXCEPT ![d].Schemas = after], "AddRoute", parameters)
    /\ given' = EmptyDefinitions
    /\ UNCHANGED <<resolving, opts, routers, hostRouters, fw>>

(* ---------------------------------------------------------------------- *)
(* documentation and dispatch                                              *)
(* ---------------------------------------------------------------------- *)
\* r.GenerateAndExposeOpenapi(), the document valid and without references
GenerateAndExposeOpenapi ==
    /\ routers # <<>> /\ Routes + 2 <= MaxRoutes
    /\ \E r \in DOMAIN routers :
        LET on == routers[r].router
            handler == 0 - routers[r].swaggerSchema
        IN  /\ mux' = mux \o
                    <<[on |-> on, sub |-> 0, h |-> handler,
                       path |-> fw[on].tpl \o DefaultJSONDocumentationPath],
                      [on |-> on, sub |-> 0, h |-> handler,
                       path |-> fw[on].tpl \o DefaultYAMLDocumentationPath]>>
            /\ called' = [NoCalled EXCEPT !.op = "GenerateAndExposeOpenapi", !.r = r,
                                          !.changed = TRUE]
    /\ UNCHANGED <<resolving, opts, routers, hostRouters, docs, fw, given>>

RECURSIVE Match(_, _, _)
\* mux.Router.ServeHTTP on framework router f: the handler of the first
\* route of its router that matches path, looking into subrouters
Match(m, f, path) ==
    LET hits == {i \in DOMAIN m :
                    /\ m[i].on = f
                    /\ IF m[i].sub = 0 THEN m[i].path = path
                       ELSE HasPrefix(path, m[i].path) /\ Match(m, m[i].sub, path) # 0}
    IN  IF hits = {} THEN 0
        ELSE LET i == CHOOSE i \in hits : \A j \in hits : i <= j
             IN  IF m[i].sub = 0 THEN m[i].h ELSE Match(m, m[i].sub, path)

\* the paths a request is made to
RequestPaths ==
    {mux[i].path : i \in DOMAIN mux}
        \cup {DefaultJSONDocumentationPath, DefaultYAMLDocumentationPath}
        \cup {TrimPrefix(DefaultJSONDocumentationPath, opts.PathPrefix)}

\* r.ServeHTTP(w, req); a request names a host that has a router or none
ServeHTTP ==
    /\ routers # <<>>
    /\ \E r \in DOMAIN routers, host \in DOMAIN hostRouters \cup {""}, path \in RequestPaths :
        LET targetRouter == IF host \in DOMAIN hostRouters THEN hostRouters[host] ELSE r
            expectedJSONDocPath ==
                TrimPrefix(DefaultJSONDocumentationPath, routers[targetRouter].pathPrefix)
            expectedYAMLDocPath ==
                TrimPrefix(DefaultYAMLDocumentationPath, routers[targetRouter].pathPrefix)
            req == [NoCalled EXCEPT !.op = "ServeHTTP", !.r = r, !.host = host, !.path = path]
            Answer(via, f) ==
                LET h == Match(mux, f, path)
                IN  [req EXCEPT !.via = via, !.h = h, !.status = IF h = 0 THEN 404 ELSE 200]
        IN  called' =
                IF r # rootRouter THEN [req EXCEPT !.status = 500]
                ELSE IF path = expectedJSONDocPath \/ path = expectedYAMLDocPath
                THEN Answer("docs", routers[targetRouter].router)
                ELSE IF opts.CustomServeHTTPHandler
                THEN [req EXCEPT !.via = "custom", !.status = 200]
                ELSE IF targetRouter # r THEN Answer("host", routers[targetRouter].router)
                ELSE Answer("root", routers[r].router)
    /\ UNCHANGED <<resolving, opts, routers, hostRouters, docs, fw, mux, given>>

\* routers are made, routes without definitions added, requests served
SpecRouter ==
    Init /\ [][NewRouter \/ Group \/ Host \/ AddRawRoute \/ AddRoute
                    \/ GenerateAndExposeOpenapi \/ ServeHTTP]_vars

\* the first route has definitions
SpecRoutes == Init /\ [][NewRouter \/ Define \/ AddRoute]_vars

(* ---------------------------------------------------------------------- *)
(* properties                                                              *)
(* ---------------------------------------------------------------------- *)
\* a call that has started runs until it returns
FairSpec == Spec /\ WF_vars(Resolve)

CanonA == Canonical("schemas", <<"A">>)

CanonB == Canonical("schemas", <<"B">>)

Returned == result.st \in {"ok", "err"}

Succeeded == result.st = "ok"

CellsOf(o) == IF o \in SchemaObjs THEN MemberCells(o) ELSE ContentCells(o)

\* the schemas cl holds under object o: every member of a schema, and the
\* schemas of a body that were referenced by name
Held(cl, o) ==
    {cl[c].Value : c \in {x \in CellsOf(o) : o \in SchemaObjs \/ cl[x].Ref # <<>>}} \ {NIL}

\* the objects reached from objs through the values of cl
RECURSIVE Closure(_, _)
Closure(cl, objs) ==
    LET more == objs \cup UNION {Held(cl, o) : o \in objs}
    IN  IF more = objs THEN objs ELSE Closure(cl, more)

TopRefs(o) ==
    {o.RequestBody} \cup {o.Responses[st] : st \in DOMAIN o.Responses}
        \cup {o.Parameters[i] : i \in DOMAIN o.Parameters}

\* the SchemaRefs reachable from operation o: the schemas of the media types
\* and parameters, and the members of the schemas resolved for them
ReachableCells(o, cl) ==
    UNION {CellsOf(x) : x \in Closure(cl, {r.Value : r \in TopRefs(o)} \ {NIL})}

\* the operation the call was given references the schema A
OpRefsA == \E c \in ReachableCells(op0, cell0) : cell0[c].Ref = CanonA

\* the document the call was given has the schemas A and B referencing each
\* other, and the operation referencing A
MutualDoc == cell0["A.b"].Ref = CanonB /\ cell0["B.a"].Ref = CanonA /\ OpRefsA

\* or has A referencing itself
CyclicDoc == MutualDoc \/ (cell0["A.b"].Ref = CanonA /\ OpRefsA)

C2_MutualRefsPopulated ==
    (Returned /\ MutualDoc)
        => (Succeeded /\ cell["A.b"].Value # NIL /\ cell["B.a"].Value # NIL)

\* C3: after a call that returned no error, every reference reachable from the
\* operation that has a Ref has a Value
C3_ReachableRefsResolved ==
    Succeeded =>
        /\ \A r \in TopRefs(op) : r.Ref # <<>> => r.Value # NIL
        /\ \A c \in ReachableCells(op, cell) : cell[c].Ref # <<>> => cell[c].Value # NIL

\* the canonical spelling of a schema ref in one of the recognized spellings
CanonicalOf(ref) ==
    IF HasPrefix(ref, DefsPrefix) THEN SchemasPrefix \o TrimPrefix(ref, DefsPrefix)
    ELSE IF HasPrefix(ref, DefinitionsPrefix) THEN SchemasPrefix \o TrimPrefix(ref, DefinitionsPrefix)
    ELSE ref

\* C4: a Ref that was set before the call is set after it, names the same
\* component (in canonical spelling for a schema) and, after a success, stands
\* beside the filled Value; a reference without a Ref keeps its Value and
\* gets no Ref
C4_RefsKept ==
    Returned =>
        /\ op.RequestBody.Ref = op0.RequestBody.Ref
        /\ \A st \in DOMAIN op0.Responses : op.Responses[st].Ref = op0.Responses[st].Ref
        /\ \A i \in DOMAIN op0.Parameters : op.Parameters[i].Ref = op0.Parameters[i].Ref
        /\ \A r \in TopRefs(op0) : r.Ref = <<>> => r \in TopRefs(op)
        /\ \A c \in Cells : cell0[c].Ref = <<>> => cell[c] = cell0[c]
        /\ \A c \in Cells : cell0[c].Ref # <<>> => cell[c].Ref \in {cell0[c].Ref, CanonicalOf(cell0[c].Ref)}
        /\ Succeeded =>
              /\ \A r \in TopRefs(op) : r.Ref # <<>> => r.Value # NIL
              /\ \A c \in ReachableCells(op, cell) :
                    cell0[c].Ref # <<>> =>
                        cell[c].Ref = CanonicalOf(cell0[c].Ref) /\ cell[c].Value # NIL

IsCanonicalSchemaRef(ref) ==
    HasPrefix(ref, SchemasPrefix) /\ Len(Split(ref)) = 4 /\ Len(ref) > Len(SchemasPrefix)

\* C5: after a call that returned no error, every schema Ref reachable from
\* the operation is spelled #/components/schemas/<name>
C5_SchemaRefsCanonical ==
    Succeeded =>
        \A c \in ReachableCells(op, cell) : cell[c].Ref # <<>> => IsCanonicalSchemaRef(cell[c].Ref)

\* a component name of one segment
Names == NormSegs \ {<<>>}

NormalizedTo(ref) == [ok |-> TRUE, ref |-> ref]

\* C6: the normalizer maps #/$defs/<N>, #/definitions/<N>,
\* #/components/schemas/<N> and #/<N> to #/components/schemas/<N>, and fails
\* on #/ and on the empty string
C6_NormalizerMaps ==
    nout # <<>> =>
        /\ \A n \in Names :
              nin \in {DefsPrefix \o n, DefinitionsPrefix \o n, SchemasPrefix \o n}
                  => nout[1] = NormalizedTo(SchemasPrefix \o n)
        /\ \A n \in Names \ {<<"$defs">>, <<"definitions">>, <<"components">>} :
              nin = Root \o n => nout[1] = NormalizedTo(SchemasPrefix \o n)
        /\ nin \in {Root, <<>>} => ~nout[1].ok

\* C7: normalizing #/components/<kind>/<name> returns it unchanged, and
\* normalizing a result of the normalizer returns that result
C7_NormalizerIdempotent ==
    /\ nout # <<>> =>
          \A k \in Kinds : \A n \in Names :
              nin = Canonical(k, n) => nout[1] = NormalizedTo(nin)
    /\ Len(nout) = 2 => nout[2] = nout[1]

\* the resolver has just resolved a reference to component n of kind k
Resolving(k, n) == last.act = "resolve" /\ last.ref = Canonical(k, n)

NoRegistry(k) == ~rootSchema.Components \/ k \notin rootSchema.Regs

FailedWith(msg, kind, arg) ==
    result.st = "err" /\ result.msg = msg /\ result.kind = kind /\ result.arg = arg

\* C8, as the code has it: a reference to a component of kind schemas,
\* parameters, requestBodies or responses fails with '<kind> "<name>" not found'
\* when the registry of the kind has no such entry, and with 'no <kinds>
\* defined in components' when the registry, or Components, is absent
C8_NotFoundOrNoRegistry ==
    \A k \in Kinds : \A n \in RefSegs :
        Resolving(k, n) =>
            IF NoRegistry(k) THEN FailedWith("no %s defined in components", k, <<>>)
            ELSE n \notin DOMAIN Entries(k) => FailedWith("%s %q not found", Singular(k), n)

C8_MissingRequestBody ==
    /\ FailedWith("%s %q not found", "requestBody", <<"Missing">>)
    /\ result.site = <<"requestBody">>

\* C8, as stated: it fails with '<kind> "<name>" not found' also when the
\* registry of the kind, or Components, is absent
C8_NotFoundAlways ==
    \A k \in Kinds : \A n \in RefSegs :
        (Resolving(k, n) /\ (NoRegistry(k) \/ n \notin DOMAIN Entries(k)))
            => FailedWith("%s %q not found", Singular(k), n)

\* the resolver has just handled the reference that the document spelled raw
Handling(raw) == last.act \in {"convert", "resolve"} /\ last.raw = raw

\* C9: a reference, wherever it stands, whose pointer does not start with #/
\* fails with 'reference ... must point to a component'
C9_MustPointToComponent ==
    \A x \in RefStrings :
        (Handling(x) /\ ~HasPrefix(x, Root))
            => FailedWith("reference %q must point to a component", "", x)

\* the pointer has too few segments to name a component
TooFewSegments(ref) ==
    Len(Split(ref)) < 3 \/ (Split(ref)[2] = <<"components">> /\ Len(Split(ref)) < 4)

UnknownSection(ref) == Split(ref)[2] \notin {<<"components">>, <<"$defs">>, <<"definitions">>}

\* C10: a pointer that starts with #/ and has too few segments, or a section
\* other than components, $defs, definitions, fails with 'invalid reference
\* format' (stated for the RequestBodyRef, ResponseRef and ParameterRef of
\* the operation, which reach resolveComponentRef as they are spelled)
C10_InvalidFormat ==
    \A x \in RefStrings :
        (/\ Handling(x)
         /\ last.site[1] \in {"requestBody", "response", "parameter"}
         /\ HasPrefix(x, Root)
         /\ (TooFewSegments(x) \/ UnknownSection(x)))
            => FailedWith("invalid reference format: %q", "", x)

\* the place of a status, a media type or a parameter name in sorted order
SortRank(x) ==
    CASE x \in {"200", "application/json", "pC"} -> 1
      [] x \in {"404", "application/xml", "pI"} -> 2

\* C11: the responses are processed in ascending order of status, the
\* parameters in order of name, the media types of a Content in sorted
\* order: nothing is processed while something that sorts before it is pending
C11_SortedOrder ==
    \A i \in DOMAIN stack :
        LET f == stack[i]
        IN  /\ (f.fn = "op" /\ f.phase = "responses") =>
                  \A pending \in f.todo : \A done \in DOMAIN op.Responses \ f.todo :
                      SortRank(done) < SortRank(pending)
            /\ (f.fn = "content") =>
                  \A pending \in f.todo : \A done \in ContentTodo(f.obj) \ f.todo :
                      SortRank(done) < SortRank(pending)
            /\ (f.fn = "op" /\ f.phase = "parameterSchema") =>
                  \A j \in 1..(f.idx - 1) :
                      op.Parameters[j].Value # NIL =>
                          SortRank(op.Parameters[j].Value) <= SortRank(op.Parameters[f.idx].Value)

\* C12: two calls on equal operations and equal documents end with equal
\* documents and return the same, whatever order the maps are iterated in
C12_Deterministic ==
    (first.done /\ Returned)
        => (op = first.op /\ cell = first.cell /\ result = first.result)

\* C13: a second call on what a first successful call left succeeds and
\* leaves every Ref and every Value as the first call left them
C13_Idempotent ==
    (first.done /\ Returned)
        => (Succeeded /\ op = first.op /\ cell = first.cell)

\* the objects a value points to through exported fields, elements and map values
RECURSIVE Targets(_)
Targets(x) ==
    CASE x.k \in {"ptr", "ref"} -> {x.o}
      [] x.k = "struct" ->
            UNION {Targets(x.f[i]) : i \in {j \in DOMAIN x.f : Fields(x.t.n)[j].Exported}}
      [] x.k \in {"slice", "map"} -> UNION {Targets(x.f[i]) : i \in DOMAIN x.f}
      [] OTHER -> {}

\* the objects reached from the objects S in one step or more
RECURSIVE ReachedFrom(_, _)
ReachedFrom(S, n) ==
    LET next == UNION {Targets(heap[o]) : o \in S}
    IN  IF n = 0 THEN {} ELSE next \cup ReachedFrom(next, n - 1)

OnCycle(o) == o \in ReachedFrom({o}, MaxObjs)

\* the value's graph of exported fields, elements and map values has a cycle
CyclicValue(v) ==
    \E o \in Targets(v) \cup ReachedFrom(Targets(v), MaxObjs) : OnCycle(o)

Checked == cyc.st # "none"

\* C14: once Components.Schemas holds an entry under a name, no registration
\* replaces or removes it
C14_FirstWriterWins ==
    [][\A n \in DOMAIN schemas : n \in DOMAIN schemas' /\ schemas'[n] = schemas[n]]_vars

\* a registration reflected a definition of a name the registry held with
\* other content, and returned a schema
C14_DuplicateKept == ret.st = "ok" /\ ret.dup

\* C15: a Node, A or B value with a cycle through its pointer fields is refused
\* with a cycle error whose trace holds the repeated type at least twice
C15_CycleReported ==
    (Checked /\ cyc.v.k \in {"ptr", "struct"} /\ cyc.v.t.n \in {"Node", "A", "B"}
        /\ CyclicValue(cyc.v))
        => /\ cyc.st = "cycle"
           /\ Cardinality({i \in DOMAIN cyc.trace :
                  cyc.trace[i].Type = cyc.trace[Len(cyc.trace)].Type}) >= 2

\* n.Next = n was checked, and a.B = b, b.A = a
C15_SelfNodeChecked ==
    /\ Checked /\ cyc.v = PtrTo(1, "Node") /\ heap[1].f[2] = PtrTo(1, "Node")
    /\ cyc.st = "cycle"

\* the value holds nothing but lists, private pointers, slices and maps
Plain(v) ==
    /\ v.k # "ptrToInterface" /\ v.t.n \notin {"Emb", "Outer"}
    /\ \A o \in DOMAIN heap :
        /\ heap[o].t.n \notin {"Emb", "Outer"}
        /\ \A i \in DOMAIN heap[o].f : heap[o].f[i].k # "ptrToInterface"

\* C16: a value whose graph of exported fields, elements and map values has no
\* cycle is accepted
C16_AcyclicAccepted ==
    (Checked /\ Plain(cyc.v) /\ ~CyclicValue(cyc.v)) => cyc.st = "ok"

\* a Priv value whose private pointer leads back to it
PrivateCycle(v) ==
    /\ v.t.n = "Priv" /\ v.k \in {"ptr", "struct"}
    /\ LET self == IF v.k = "ptr" THEN heap[v.o].f[2] ELSE v.f[2]
       IN  self.k = "ptr" /\ \/ heap[self.o].f[2] = self
                             \/ heap[self.o].f[2].k = "ptr"
                                /\ heap[heap[self.o].f[2].o].f[2] = self

\* C17: a cycle through the private pointer of a struct with an exported Name
\* is not reported: the detector returns success
C17_PrivateCycleAccepted ==
    (Checked /\ PrivateCycle(cyc.v)) => cyc.st = "ok"

\* p.self = p was checked
C17_SelfPrivChecked ==
    /\ Checked /\ cyc.v = PtrTo(1, "Priv") /\ heap[1].f[2] = PtrTo(1, "Priv")
    /\ cyc.st = "ok"

\* C18: a struct that embeds a pointer to its own type is refused whatever
\* the data: as a value, as a nil or non-nil pointer, as a field of another value
C18_EmbeddedRejected ==
    (Checked /\ \/ cyc.v.t.n = "Emb" /\ cyc.v.k \in {"struct", "nil", "ptr"}
                \/ cyc.v.t.n = "Outer" /\ cyc.v.k \in {"struct", "ptr"})
        => cyc.st = "embedded"

\* C19: the detector returns success or a cycle error on every value
C19_Terminates == cyc.st \in {"none", "ok", "cycle", "embedded"}

\* C20: ResolveAllComponents returns success or an error on every registry,
\* also when schemas refer to each other or to themselves: the calls never
\* nest until the stack is exhausted
C20_Terminates == result.st # "overflow"

(* ---------------------------------------------------------------------- *)
(* properties of the Router                                                *)
(* ---------------------------------------------------------------------- *)
\* the document the routes of router r belong to: its host's, the root's without a host
OwnDocument(r) ==
    IF routers[r].host = "" THEN routers[rootRouter].swaggerSchema
    ELSE routers[hostRouters[routers[r].host]].swaggerSchema

RoutersOf(h) == {i \in DOMAIN routers : routers[i].host = h /\ ~routers[i].isSubrouter}

\* C22: no two host routers have the same host name, Host returns the
\* router of that name; it fails exactly when called on a router that is
\* not the root, with an empty name, or with a new name and no factory, and
\* a failed or repeated call leaves routers and hostRouters as they were
C22_OneRouterPerHost ==
    /\ [](\A h \in Hosts : /\ Cardinality(RoutersOf(h)) <= 1
                            /\ h \in DOMAIN hostRouters <=> RoutersOf(h) # {})
    /\ [](called.op = "Host" =>
            /\ called.err <=> \/ called.r # rootRouter
                              \/ called.host = ""
                              \/ RoutersOf(called.host) = {} /\ ~opts.FrameworkRouterFactory
            /\ ~called.err => /\ called.ret \in RoutersOf(called.host)
                              /\ hostRouters[called.host] = called.ret)
    /\ [][(called'.op = "Host" /\ (called'.err \/ called'.host \in DOMAIN hostRouters))
            => (routers' = routers /\ hostRouters' = hostRouters)]_vars

\* Host(h) was called again and returned the router it had made
C22_RepeatedHost ==
    called.op = "Host" /\ ~called.err /\ ~called.changed

\* C23: the root router answers a request for a documentation path as
\* documentation, any other request by the custom handler if there is one,
\* else by the router of the request's host if there is one, else by
\* itself; a router that is not the root answers 500 and calls no handler
C23_DispatchOrder ==
    called.op = "ServeHTTP" =>
        IF called.r # rootRouter THEN called.status = 500 /\ called.via = "none"
        ELSE called.via =
                IF called.path \in {DefaultJSONDocumentationPath, DefaultYAMLDocumentationPath}
                THEN "docs"
                ELSE IF opts.CustomServeHTTPHandler THEN "custom"
                ELSE IF called.host \in DOMAIN hostRouters THEN "host"
                ELSE "root"

\* C24: with a host router made and the documentation exposed on the root
\* router only, a request for the JSON documentation path with that host,
\* served by the root router, is answered 200
C24_HostDocsServed ==
    (/\ called.op = "ServeHTTP" /\ called.r = rootRouter
     /\ called.host \in DOMAIN hostRouters
     /\ called.path = DefaultJSONDocumentationPath
     /\ \E i \in DOMAIN mux : mux[i].h < 0 /\ mux[i].on = routers[rootRouter].router
     /\ \A i \in DOMAIN mux : mux[i].h < 0 => mux[i].on = routers[rootRouter].router)
        => called.status = 200

\* the names given both in Definitions.Parameters and in a legacy field
GivenTwice(d) ==
    DOMAIN d.Parameters
        \cap (DOMAIN d.PathParams.m \cup DOMAIN d.Querystring
                \cup DOMAIN d.Headers \cup DOMAIN d.Cookies)

\* parameter p of the operation is the entry of that name of Definitions.Parameters
FromDefinitions(p, d) ==
    /\ p.In = d.Parameters[p.Name].In
    /\ p.Required = d.Parameters[p.Name].Required
    /\ p.Description = d.Parameters[p.Name].Description

\* C25 as stated: a name given in Definitions.Parameters and in a legacy
\* field is in the operation exactly once, as Definitions.Parameters gives it
C25_ExactlyOneFromDefinitions ==
    (called.op = "AddRoute" /\ ~called.err) =>
        \A name \in GivenTwice(called.defs) :
            LET hits == {i \in DOMAIN called.Parameters : called.Parameters[i].Name = name}
            IN  /\ Cardinality(hits) = 1
                /\ \A i \in hits : FromDefinitions(called.Parameters[i], called.defs)

\* C25: a name given in Definitions.Parameters and in a legacy field is in
\* the operation exactly once if the schema of the Definitions.Parameters
\* entry can be converted and not at all if it cannot; it is never there
\* as the legacy field gives it
C25_OneFromDefinitionsIfConverted ==
    (called.op = "AddRoute" /\ ~called.err) =>
        \A name \in GivenTwice(called.defs) :
            LET hits == {i \in DOMAIN called.Parameters : called.Parameters[i].Name = name}
            IN  /\ Cardinality(hits) = IF called.defs.Parameters[name].ok THEN 1 ELSE 0
                /\ \A i \in hits : FromDefinitions(called.Parameters[i], called.defs)

\* q was given as a path parameter in Definitions.Parameters and in
\* Querystring, and the operation has it
C25_GivenTwiceKept ==
    /\ called.op = "AddRoute" /\ ~called.err
    /\ "q" \in DOMAIN called.defs.Parameters /\ "q" \in DOMAIN called.defs.Querystring
    /\ called.defs.Parameters["q"].In = "path"
    /\ \E i \in DOMAIN called.Parameters : called.Parameters[i].Name = "q"

\* C28: every parameter of location path of an operation AddRoute built is required
C28_PathParamsRequired ==
    (called.op = "AddRoute" /\ ~called.err) =>
        \A i \in DOMAIN called.Parameters :
            called.Parameters[i].In = "path" => called.Parameters[i].Required

\* C29: an AddRoute that returns an error has changed neither the
\* documents (paths, Components) nor the routes of the framework router
C29_FailedAddRouteChangesNothing ==
    [][(called'.op = "AddRoute" /\ called'.err) => (docs' = docs /\ mux' = mux)]_vars

\* C30: the path AddRoute or AddRawRoute records in the document of the
\* root router, of a group or of a nested group is the path at which the
\* framework router serves the handler
C30_PathsAgree ==
    (called.op \in {"AddRoute", "AddRawRoute"} /\ ~called.err /\ routers[called.r].host = "")
        => called.oasPath = called.served

(* ---------------------------------------------------------------------- *)
(* properties of the VisitedSet                                            *)
(* ---------------------------------------------------------------------- *)
\* processSchemaRefs is about to return nil for the schema on top of the stack
SchemaDone == result.st = "running" /\ stack # <<>> /\ Top.fn = "schema" /\ Top.phase = "return"

\* C26: when processSchemaRefs returns nil for a schema, every reference in
\* its properties, items, additionalProperties, allOf, anyOf and oneOf has
\* had its turn: it was found in the VisitedSet or it was put there and
\* resolved, whatever happened to the references in the other members
C26_AllMembersProcessed ==
    SchemaDone =>
        \A c \in MemberCells(Top.obj) :
            cell[c].Ref # <<>> => (cell[c].Ref \in visited \/ cell0[c].Ref \in visited)

\* a ref spelled #/components/<kind>/<name>
IsCanonicalRef(ref) ==
    LET parts == Split(ref)
    IN  /\ Len(parts) = 4
        /\ parts[1] = <<"#">> /\ parts[2] = <<"components">>
        /\ parts[3] \in {<<k>> : k \in Kinds}
        /\ parts[4] # <<>>

\* C27: at every point of a resolution call every string in the VisitedSet
\* is spelled #/components/<kind>/<name>, so that no component is in the set
\* under two spellings
C27_VisitedCanonical == \A ref \in visited : IsCanonicalRef(ref)

=============================================================================
